---- MODULE Spec2Model ----
(***************************************************************************)
(* Seat/booking consistency model of the theatre reservation application.  *)
(*                                                                         *)
(* The database tables (auth.users, user_roles, allowed_users,             *)
(* seat_layout, seats, bookings) are the state.  Every committed database  *)
(* transaction is one action: the statement, the constraint checks and the *)
(* AFTER ... FOR EACH ROW triggers of a statement run in the transaction   *)
(* of that statement.  A booking INSERT is two steps, because under READ   *)
(* COMMITTED its row-level-security WITH CHECK is evaluated on the         *)
(* statement's snapshot, while the unique indexes and the foreign keys are *)
(* checked against the rows committed when the insert reaches them (an     *)
(* insert blocked on a concurrent one resumes after that one commits).     *)
(* The provisioning handler (supabase/functions/login/index.ts) is one     *)
(* step per awaited request.                                               *)
(***************************************************************************)
EXTENDS Integers, FiniteSets, Sequences, TLC

\* ------------------------------------------------------------- bounds
MaxUsers == 3      \* identities present at start: one admin, the rest users
MaxRows == 2       \* largest total_rows an admin writes
MaxCols == 1       \* largest total_columns an admin writes
MaxAttempts == 1   \* booking inserts in flight beside the other transactions (Spec)
MaxRacers == 2     \* booking inserts in flight together (SpecRace, SpecConc)
MaxReqs == 1       \* provisioning requests in flight at once
MaxNames == 3      \* distinct mailbox names a provisioning request may carry
MaxSecrets == 3    \* distinct secrets (uti) a provisioning request may carry

UserIds == 1..MaxUsers
Attempts == 1..MaxRacers
\* gen_random_uuid(): an id no row and no client holds.  Ids are opaque and
\* only compared, so which new id is drawn does not matter: each cell draws
\* from a pool of its own, large enough for a new seat beside the old one
\* and the seat ids still held by booking inserts in flight.
IdsPerCell == MaxRacers + 2
CellIds(r, c) ==
  LET k == (r - 1) * MaxCols + (c - 1)
  IN (k * IdsPerCell + 1)..((k + 1) * IdsPerCell)
SeatIds == 1..(MaxRows * MaxCols * IdsPerCell)
None == 0          \* no identity / no value

VARIABLES
  auth_users,     \* auth.users: set of [id, email]
  user_roles,     \* public.user_roles: set of [user_id, role]
  allowed_users,  \* public.allowed_users: set of [email, uti]
  seat_layout,    \* the seat_layout row: [total_rows, total_columns]
  seats,          \* public.seats: set of [id, row_num, col_num, is_booked]
  bookings,       \* public.bookings: set of [user_id, seat_id]
  attempts,       \* booking inserts: Attempts -> [pc, user_id, seat_id, result]
  reqs,           \* provisioning requests: Reqs -> [pc, caller, body, email, uti, role,
                  \*   authUser, status, wrote]; wrote is history: the tables it wrote
  authCtx,        \* AuthProvider of one browser: [user, isAdmin, loading, lookups];
                  \*   lookups are the checkAdminRole calls not yet answered,
                  \*   path is the route the browser shows ("/" is the Login page)
  overrideUsed,   \* history: an admin has written seats.is_booked directly
  lastTx          \* history: the kind of the last committed transaction

vars == <<auth_users, user_roles, allowed_users, seat_layout, seats, bookings,
          attempts, reqs, authCtx, overrideUsed, lastTx>>

dbBooking == <<seat_layout, seats, bookings>>
dbAccounts == <<auth_users, user_roles, allowed_users>>

\* ------------------------------------------------------------- emails
\* An email is a mailbox name with two presentation attributes: whether it
\* is written with upper-case letters and whether blanks surround it.
Emails == [name : 1..MaxNames, upper : BOOLEAN, pad : BOOLEAN]

toLowerCase(e) == [e EXCEPT !.upper = FALSE]

trim(e) == [e EXCEPT !.pad = FALSE]

Normalized(e) == trim(toLowerCase(e))

\* ------------------------------------------------------------- helpers (SQL)
AuthIds == {u.id : u \in auth_users}

has_role(uid, role) ==
  \E r \in user_roles : r.user_id = uid /\ r.role = role

user_has_booking(uid) ==
  \E b \in bookings : b.user_id = uid

\* mutant: availability is computed from bookings, not read from the flag
seat_is_available_FromBookings(sid) == {~\E b \in bookings : b.seat_id = sid}

\* SELECT NOT is_booked FROM seats WHERE id = _seat_id: the rows selected.
\* No row is SQL NULL, which no WITH CHECK accepts.
seat_is_available(sid) ==
  {~s.is_booked : s \in {x \in seats : x.id = sid}}

SeatExists(sid) == \E s \in seats : s.id = sid

SeatAt(S, r, c) == {s \in S : s.row_num = r /\ s.col_num = c}

\* UPDATE seats SET is_booked = v WHERE id = sid
SetBooked(S, sid, v) ==
  {IF s.id = sid THEN [s EXCEPT !.is_booked = v] ELSE s : s \in S}

\* ------------------------------------------------------------- triggers
\* mutant: the insert trigger is missing
mark_seat_booked_Missing(S, new) == S

mark_seat_booked(S, new) == SetBooked(S, new.seat_id, TRUE)

\* mutant: the delete trigger is missing
free_seat_on_delete_Missing(S, old) == S

free_seat_on_delete(S, old) == SetBooked(S, old.seat_id, FALSE)

\* mutant: the update trigger writes both seats without comparing OLD and NEW
handle_booking_update_Unconditional(S, old, new) ==
  SetBooked(SetBooked(S, old.seat_id, FALSE), new.seat_id, TRUE)

\* mutant: the update trigger frees the old seat and does not occupy the new one
handle_booking_update_FreesOnly(S, old, new) ==
  IF old.seat_id # new.seat_id THEN SetBooked(S, old.seat_id, FALSE) ELSE S

\* mutant: the update trigger occupies the new seat and forgets the old one
handle_booking_update_KeepsOld(S, old, new) ==
  IF old.seat_id # new.seat_id THEN SetBooked(S, new.seat_id, TRUE) ELSE S

handle_booking_update(S, old, new) ==
  IF old.seat_id # new.seat_id
    THEN SetBooked(SetBooked(S, old.seat_id, FALSE), new.seat_id, TRUE)
    ELSE S

\* free_seat_on_delete for each row of a set of deleted bookings
RECURSIVE FreeAll(_, _)
FreeAll(S, del) ==
  IF del = {} THEN S
  ELSE LET b == CHOOSE x \in del : TRUE
       IN FreeAll(free_seat_on_delete(S, b), del \ {b})

\* ------------------------------------------------------------- constraints
\* mutant: seat_id is not declared UNIQUE
UniqueSeatViolated_Dropped(B, row) == FALSE

\* bookings.seat_id UNIQUE
UniqueSeatViolated(B, row) == \E b \in B : b.seat_id = row.seat_id

\* mutant: UNIQUE(user_id) is not declared
UniqueUserViolated_Dropped(B, row) == FALSE

\* bookings UNIQUE(user_id)
UniqueUserViolated(B, row) == \E b \in B : b.user_id = row.user_id

\* ------------------------------------------------------------- policies
\* mutant: the user policy does not ask seat_is_available
UserInsertCheck_NoSeatTest(caller, row) ==
  /\ row.user_id = caller
  /\ ~user_has_booking(caller)

\* bookings FOR INSERT WITH CHECK of the user policy
UserInsertCheck(caller, row) ==
  /\ row.user_id = caller
  /\ ~user_has_booking(caller)
  /\ seat_is_available(row.seat_id) = {TRUE}

\* mutant: the admin policies are written USING (true)
AdminPolicy_Everyone(caller) == TRUE

\* The conjuncts of the user policy's WITH CHECK that are not true of the row.
FailedChecks(caller, row) ==
  (IF row.user_id = caller THEN {} ELSE {"auth.uid() = user_id"}) \cup
  (IF user_has_booking(caller) THEN {"NOT user_has_booking"} ELSE {}) \cup
  (IF seat_is_available(row.seat_id) = {TRUE} THEN {} ELSE {"seat_is_available"})

\* "Admins can manage ..." FOR ALL USING / WITH CHECK
AdminPolicy(caller) == has_role(caller, "admin")

\* permissive policies are OR-ed
InsertAllowed(caller, row) == UserInsertCheck(caller, row) \/ AdminPolicy(caller)

\* ------------------------------------------------------------- layout regeneration
\* The ids the INSERT of new seats may draw: held by no seat row before the
\* call and by no booking insert in flight.
FreshIds ==
  SeatIds \ ({s.id : s \in seats} \cup
             {attempts[a].seat_id : a \in {x \in Attempts : attempts[x].pc = "checked"}})

\* mutant: the INSERT has no ON CONFLICT clause and the cells are not unique
RECURSIVE InsertGrid_NoConflictClause(_, _, _, _, _, _)
InsertGrid_NoConflictClause(S, r, c, rows, cols, free) ==
  IF r > rows THEN S
  ELSE IF c > cols THEN InsertGrid_NoConflictClause(S, r + 1, 1, rows, cols, free)
  ELSE LET mine == free \cap CellIds(r, c)
           id == CHOOSE i \in mine : \A j \in mine : i <= j
       IN InsertGrid_NoConflictClause(
            S \cup {[id |-> id, row_num |-> r, col_num |-> c, is_booked |-> FALSE]},
            r, c + 1, rows, cols, free \ {id})

\* FOR r IN 1.._rows LOOP FOR c IN 1.._cols LOOP INSERT ... ON CONFLICT DO NOTHING
RECURSIVE InsertGrid(_, _, _, _, _, _)
InsertGrid(S, r, c, rows, cols, free) ==
  IF r > rows THEN S
  ELSE IF c > cols THEN InsertGrid(S, r + 1, 1, rows, cols, free)
  ELSE IF SeatAt(S, r, c) # {} THEN InsertGrid(S, r, c + 1, rows, cols, free)
  ELSE LET mine == free \cap CellIds(r, c)
           id == CHOOSE i \in mine : \A j \in mine : i <= j
       IN InsertGrid(S \cup {[id |-> id, row_num |-> r, col_num |-> c, is_booked |-> FALSE]},
                     r, c + 1, rows, cols, free \ {id})

\* bookings.seat_id REFERENCES seats(id) ON DELETE CASCADE
CascadeSeats(B, S) == {b \in B : \E s \in S : s.id = b.seat_id}

\* mutant: bookings.user_id is declared without ON DELETE CASCADE and
\* without the reference
CascadeUsers_Missing(B, ids) == B

\* bookings.user_id REFERENCES auth.users(id) ON DELETE CASCADE
CascadeUsers(B, ids) == {b \in B : b.user_id \in ids}

\* mutant: the DELETE of the unbooked seats is missing
DeleteUnbooked_Missing(S) == S

\* DELETE FROM seats WHERE seat_layout_id = _layout_id AND is_booked = false
DeleteUnbooked(S) == {s \in S : s.is_booked}

\* The function body: the DELETE (with its cascade to bookings and their
\* delete trigger), then the INSERT loop.  The result is both tables.
generate_seats_for_layout(S, B, layout, free) ==
  LET kept == DeleteUnbooked(S)
      B2 == CascadeSeats(B, kept)
      S2 == FreeAll(kept, B \ B2)
  IN [seats |-> InsertGrid(S2, 1, 1, layout.total_rows, layout.total_columns, free),
      bookings |-> B2]

\* ------------------------------------------------------------- initial state
\* The migration inserts the default layout and generates its seats; the
\* first identities are an admin and ordinary users.
InitLayout == [total_rows |-> MaxRows, total_columns |-> MaxCols]

IdleAttempt ==
  [pc |-> "idle", caller |-> None, user_id |-> None, seat_id |-> None,
   failed |-> {}, result |-> "none", booking |-> FALSE, showConfirm |-> FALSE]

\* a body field that is absent, null or the empty string: falsy in the handler
NoEmail == [name |-> None, upper |-> FALSE, pad |-> FALSE]

IdleReq == [pc |-> "idle", caller |-> None, body |-> "none", email |-> NoEmail, uti |-> None,
            role |-> "none", authUser |-> None, status |-> None, wrote |-> {}]

Reqs == 1..MaxReqs

\* useState(null), useState(false), useState(true); no lookup sent
InitAuthCtx == [user |-> None, isAdmin |-> FALSE, loading |-> TRUE, lookups |-> {},
                sessionLoad |-> "pending", path |-> "/"]

Init ==
  /\ auth_users = {[id |-> u, email |-> [name |-> u, upper |-> FALSE, pad |-> FALSE]] : u \in UserIds}
  /\ user_roles = {[user_id |-> u, role |-> IF u = 1 THEN "admin" ELSE "user"] : u \in UserIds}
  /\ allowed_users = {[email |-> [name |-> u, upper |-> FALSE, pad |-> FALSE], uti |-> u] : u \in UserIds}
  /\ seat_layout = InitLayout
  /\ seats = generate_seats_for_layout({}, {}, InitLayout, SeatIds).seats
  /\ bookings = {}
  /\ attempts = [a \in Attempts |-> IdleAttempt]
  /\ reqs = [r \in Reqs |-> IdleReq]
  /\ authCtx = InitAuthCtx
  /\ overrideUsed = FALSE
  /\ lastTx = "none"

\* ------------------------------------------------------------- booking insert
ExistingSeatIds == {s.id : s \in seats}

\* The seat ids a client may name: those of the seat rows, and an id that
\* names no row (a seat the client still shows after it was deleted).
StaleSeatId == MaxRows * MaxCols * IdsPerCell + 1

NameableSeatIds == ExistingSeatIds \cup {StaleSeatId}

\* What handleConfirmBooking holds once its insert has answered: the row it
\* sent and the answer.  With stay the handler's continuation (the toast,
\* setBooking(false), setShowConfirm(false)) is a later step, FinishInsert;
\* without, it is folded into the step that answers.  With stay the record
\* also keeps the client's side of the call: the user of its session
\* (caller), and as history the conjuncts of the user policy that were not
\* true when the WITH CHECK was evaluated (failed).
Answered(att, res, stay) ==
  IF stay THEN [att EXCEPT !.pc = "done", !.result = res] ELSE IdleAttempt

\* supabase.from("bookings").insert({user_id, seat_id}): the statement starts,
\* its WITH CHECK is evaluated on the snapshot.
BeginInsert(a, caller, uid, sid, stay) ==
  /\ attempts[a].pc = "idle"
  /\ \A x \in 1..(a - 1) : attempts[x].pc # "idle"
  /\ LET row == [user_id |-> uid, seat_id |-> sid]
         sent == [pc |-> "checked", caller |-> IF stay THEN caller ELSE None,
                  user_id |-> uid, seat_id |-> sid,
                  failed |-> IF stay THEN FailedChecks(caller, row) ELSE {},
                  result |-> "none",
                  booking |-> TRUE,      \* setBooking(true)
                  showConfirm |-> TRUE]  \* the dialog the confirmation came from
     IN attempts' = [attempts EXCEPT ![a] =
          IF InsertAllowed(caller, row) THEN sent ELSE Answered(sent, "rls", stay)]
  /\ UNCHANGED <<dbBooking, dbAccounts, reqs, authCtx, overrideUsed, lastTx>>

\* The unique indexes the new row violates.
UniqueErrors(B, row) ==
  (IF UniqueSeatViolated(B, row) THEN {"unique_seat_id"} ELSE {}) \cup
  (IF UniqueUserViolated(B, row) THEN {"unique_user_id"} ELSE {})

\* The foreign keys the new row violates.
ForeignKeyErrors(row) ==
  (IF SeatExists(row.seat_id) THEN {} ELSE {"fk_seat"}) \cup
  (IF row.user_id \in AuthIds THEN {} ELSE {"fk_user"})

\* The errors one of which the INSERT raises; none when it commits.  The
\* unique indexes are checked as the row is inserted, the foreign keys at
\* the end of the statement.
InsertErrors(B, row) ==
  IF UniqueErrors(B, row) # {} THEN UniqueErrors(B, row) ELSE ForeignKeyErrors(row)

\* mutant: the seat is flagged before the indexes are checked and the flag
\* survives the failed statement
CommitInsert_FlagSurvives(a, stay) ==
  /\ attempts[a].pc = "checked"
  /\ LET row == [user_id |-> attempts[a].user_id, seat_id |-> attempts[a].seat_id]
         errs == InsertErrors(bookings, row)
     IN /\ seats' = mark_seat_booked(seats, row)
        /\ IF errs # {}
             THEN /\ \E e \in errs :
                       attempts' = [attempts EXCEPT ![a] = Answered(@, e, stay)]
                  /\ UNCHANGED <<bookings, lastTx>>
             ELSE /\ bookings' = bookings \cup {row}
                  /\ attempts' = [attempts EXCEPT ![a] = Answered(@, "committed", stay)]
                  /\ lastTx' = "insert"
  /\ UNCHANGED <<seat_layout, dbAccounts, reqs, authCtx, overrideUsed>>

\* The row reaches the indexes: unique and foreign-key checks against the
\* committed rows, then the on_booking_created trigger, then commit.
CommitInsert(a, stay) ==
  /\ attempts[a].pc = "checked"
  /\ LET row == [user_id |-> attempts[a].user_id, seat_id |-> attempts[a].seat_id]
         errs == InsertErrors(bookings, row)
     IN IF errs # {}
          THEN /\ \E e \in errs :
                    attempts' = [attempts EXCEPT ![a] = Answered(@, e, stay)]
               /\ UNCHANGED <<dbBooking, lastTx>>
          ELSE /\ bookings' = bookings \cup {row}
               /\ seats' = mark_seat_booked(seats, row)
               /\ attempts' = [attempts EXCEPT ![a] = Answered(@, "committed", stay)]
               /\ lastTx' = "insert"
               /\ UNCHANGED seat_layout
  /\ UNCHANGED <<dbAccounts, reqs, authCtx, overrideUsed>>

\* The answer of the insert as the client library hands it over: null when
\* the row was committed, else the words of PostgreSQL's message that name
\* what was violated.
ErrorMessage(result) ==
  CASE result = "committed"      -> << >>
    [] result = "rls"            -> <<"new row violates row-level security policy", "bookings">>
    [] result = "unique_user_id" -> <<"duplicate key value violates unique constraint", "bookings", "user_id", "key">>
    [] result = "unique_seat_id" -> <<"duplicate key value violates unique constraint", "bookings", "seat_id", "key">>
    [] result = "fk_user"        -> <<"violates foreign key constraint", "bookings", "user_id", "fkey">>
    [] result = "fk_seat"        -> <<"violates foreign key constraint", "bookings", "seat_id", "fkey">>

\* error.message.includes(word)
includes(message, word) == \E i \in 1..Len(message) : message[i] = word

\* The description of the toast handleConfirmBooking shows.
ToastDescription(result) ==
  IF ErrorMessage(result) = << >> THEN <<"Seat", "is now yours!">>
  ELSE IF includes(ErrorMessage(result), "user_id") THEN <<"You already have a booking!">>
  ELSE ErrorMessage(result)

\* mutant: the error branch returns after its toast
FinishInsert_OnlyOnSuccess(a) ==
  /\ attempts[a].pc = "done"
  /\ attempts[a].result = "committed"
  /\ attempts' = [attempts EXCEPT ![a] = IdleAttempt]
  /\ UNCHANGED <<dbBooking, dbAccounts, reqs, authCtx, overrideUsed, lastTx>>

\* handleConfirmBooking returns: toast, setBooking(false), setShowConfirm(false)
FinishInsert(a) ==
  /\ attempts[a].pc = "done"
  /\ attempts' = [attempts EXCEPT ![a] = IdleAttempt]
  /\ UNCHANGED <<dbBooking, dbAccounts, reqs, authCtx, overrideUsed, lastTx>>

\* ------------------------------------------------------------- admin writes
\* An UPDATE or DELETE by a caller the policy's USING rejects matches no row
\* and commits without an effect; of a write of bookings that matched no row
\* lastTx keeps that it ran.

\* handleToggleFreeze: update seats set is_booked = !seat.is_booked, the
\* value negated being the one the client last fetched.
ToggleFreeze(caller, sid, v) ==
  /\ IF AdminPolicy(caller)
       THEN /\ seats' = SetBooked(seats, sid, v)
            /\ overrideUsed' = TRUE
            /\ lastTx' = "toggle"
       ELSE UNCHANGED <<seats, overrideUsed, lastTx>>
  /\ UNCHANGED <<seat_layout, bookings, dbAccounts, attempts, reqs, authCtx>>

\* delete from bookings where id = ...
DeleteBooking(caller, b) ==
  /\ IF AdminPolicy(caller)
       THEN /\ bookings' = bookings \ {b}
            /\ seats' = free_seat_on_delete(seats, b)
            /\ lastTx' = "delete_booking"
       ELSE lastTx' = "booking_write_no_row" /\ UNCHANGED <<bookings, seats>>
  /\ UNCHANGED <<seat_layout, dbAccounts, attempts, reqs, authCtx, overrideUsed>>

\* mutant: the update trigger runs before the index is checked and its seat
\* writes survive the failed statement
UpdateBooking_TriggerSurvives(caller, b, sid) ==
  /\ LET new == [b EXCEPT !.seat_id = sid]
     IN IF ~AdminPolicy(caller)
          THEN lastTx' = "booking_write_no_row" /\ UNCHANGED <<bookings, seats>>
          ELSE IF UniqueSeatViolated(bookings \ {b}, new)
          THEN /\ seats' = handle_booking_update(seats, b, new)
               /\ lastTx' = "reassign_rejected"
               /\ UNCHANGED bookings
          ELSE IF SeatExists(sid)
          THEN /\ bookings' = (bookings \ {b}) \cup {new}
               /\ seats' = handle_booking_update(seats, b, new)
               /\ lastTx' = IF sid # b.seat_id THEN "reassign_booking" ELSE "update_booking"
          ELSE UNCHANGED <<bookings, seats, lastTx>>
  /\ UNCHANGED <<seat_layout, dbAccounts, attempts, reqs, authCtx, overrideUsed>>

\* handleModifyBooking: update bookings set seat_id = newSeatId where id = ...
\* The statement fails on bookings_seat_id_key when another booking holds the
\* seat (lastTx keeps that it was rejected), and on the foreign key when no
\* seat has the id; a failed statement changes nothing.
UpdateBooking(caller, b, sid) ==
  /\ LET new == [b EXCEPT !.seat_id = sid]
     IN IF ~AdminPolicy(caller)
          THEN lastTx' = "booking_write_no_row" /\ UNCHANGED <<bookings, seats>>
          ELSE IF UniqueSeatViolated(bookings \ {b}, new)
          THEN lastTx' = "reassign_rejected" /\ UNCHANGED <<bookings, seats>>
          ELSE IF SeatExists(sid)
          THEN /\ bookings' = (bookings \ {b}) \cup {new}
               /\ seats' = handle_booking_update(seats, b, new)
               /\ lastTx' = IF sid # b.seat_id THEN "reassign_booking" ELSE "update_booking"
          ELSE UNCHANGED <<bookings, seats, lastTx>>
  /\ UNCHANGED <<seat_layout, dbAccounts, attempts, reqs, authCtx, overrideUsed>>

\* delete from seats where id = ...
DeleteSeat(caller, sid) ==
  /\ IF AdminPolicy(caller)
       THEN LET S2 == {s \in seats : s.id # sid}
                B2 == CascadeSeats(bookings, S2)
            IN /\ bookings' = B2
               /\ seats' = FreeAll(S2, bookings \ B2)
               /\ lastTx' = "delete_seat"
       ELSE UNCHANGED <<bookings, seats, lastTx>>
  /\ UNCHANGED <<seat_layout, dbAccounts, attempts, reqs, authCtx, overrideUsed>>

\* handleUpdateLayout, first request: update seat_layout set total_rows, total_columns
UpdateLayout(caller, rows, cols) ==
  /\ IF AdminPolicy(caller)
       THEN /\ seat_layout' = [total_rows |-> rows, total_columns |-> cols]
            /\ lastTx' = "update_layout"
       ELSE UNCHANGED <<seat_layout, lastTx>>
  /\ UNCHANGED <<seats, bookings, dbAccounts, attempts, reqs, authCtx, overrideUsed>>

\* What lastTx keeps of a call of generate_seats_for_layout: that it ran, and
\* whether the transaction committed before it was such a call too.
GenerateKinds == {"generate", "generate_again"}

\* rpc("generate_seats_for_layout"): SECURITY DEFINER, no role check inside
GenerateSeats(caller) ==
  /\ LET out == generate_seats_for_layout(seats, bookings, seat_layout, FreshIds)
     IN /\ seats' = out.seats
        /\ bookings' = out.bookings
  /\ lastTx' = IF lastTx \in GenerateKinds THEN "generate_again" ELSE "generate"
  /\ UNCHANGED <<seat_layout, dbAccounts, attempts, reqs, authCtx, overrideUsed>>

\* The identity row is deleted (handleDeleteUser's delete_user): user_roles
\* and bookings cascade, and the booking's delete trigger frees the seat.
DeleteUser(uid) ==
  /\ auth_users' = {u \in auth_users : u.id # uid}
  /\ user_roles' = {r \in user_roles : r.user_id # uid}
  /\ LET B2 == CascadeUsers(bookings, AuthIds \ {uid})
     IN /\ bookings' = B2
        /\ seats' = FreeAll(seats, bookings \ B2)
        /\ lastTx' = IF B2 # bookings THEN "delete_user_and_booking" ELSE "delete_user"
  /\ UNCHANGED <<allowed_users, seat_layout, attempts, reqs, authCtx, overrideUsed>>

\* ------------------------------------------------------------- provisioning
\* The edge function behind supabase.functions.invoke("add_user").  Each
\* await that reaches the database or the auth service is one step.
Secrets == 1..MaxSecrets

\* ids the auth service hands out: SpecProv starts with two of them unused
IdentityIds == 1..(MaxUsers + 1)

BodyEmails == Emails \cup {NoEmail}

BodySecrets == Secrets \cup {None}

\* the role field: a value of app_role, absent, or a string outside the enum
BodyRoles == {"admin", "user", "none", "other"}

app_role == {"admin", "user"}

Respond(req, code) == [req EXCEPT !.pc = "done", !.status = code]

\* the request arrives; its Authorization header names the caller
Receive(r, caller) ==
  /\ reqs[r].pc = "idle"
  /\ \A x \in Reqs : x < r => reqs[x].pc # "idle"
  /\ reqs' = [reqs EXCEPT ![r] = [IdleReq EXCEPT !.pc = "getUser", !.caller = caller]]
  /\ UNCHANGED <<dbBooking, dbAccounts, attempts, authCtx, overrideUsed, lastTx>>

\* supabaseClient.auth.getUser(); if (userError || !user) -> 401
GetUser(r) ==
  /\ reqs[r].pc = "getUser"
  /\ reqs' = [reqs EXCEPT ![r] =
       IF reqs[r].caller \in AuthIds THEN [@ EXCEPT !.pc = "roleLookup"] ELSE Respond(@, 401)]
  /\ UNCHANGED <<dbBooking, dbAccounts, attempts, authCtx, overrideUsed, lastTx>>

\* mutant: an erroring role query counts as a found admin row
RoleData_ErrorGrants(queryOk, uid) == ~queryOk \/ has_role(uid, "admin")

\* from("user_roles").select("role").eq("user_id", uid).eq("role", "admin")
\* .maybeSingle(): data is the row, or null when there is none or the query
\* errors
RoleData(queryOk, uid) == queryOk /\ has_role(uid, "admin")

\* mutant: only the email is required
MissingFields_EmailOnly(req) == req.email = NoEmail

\* if (!email || !uti)
MissingFields(req) == req.email = NoEmail \/ req.uti = None

\* the user_roles lookup (.eq role admin .maybeSingle(); an erroring query
\* leaves data null), if (!roleData) -> 403; then await req.json(), which
\* throws on a body that is no JSON object (-> catch, 500), and
\* if (!email || !uti) -> 400.  The body is an input first read here.
RoleLookup(r, queryOk, body, email, uti, role) ==
  /\ reqs[r].pc = "roleLookup"
  /\ body = "malformed" => (email = NoEmail /\ uti = None /\ role = "none")
  /\ LET roleData == RoleData(queryOk, reqs[r].caller)
         read == [reqs[r] EXCEPT !.body = body, !.email = email, !.uti = uti, !.role = role]
     IN reqs' = [reqs EXCEPT ![r] =
          IF ~roleData THEN Respond(@, 403)
          ELSE IF body = "malformed" THEN Respond([@ EXCEPT !.body = body], 500)
          ELSE IF MissingFields(read) THEN Respond([read EXCEPT !.role = "none"], 400)
          ELSE [read EXCEPT !.pc = "createUser"]]
  /\ UNCHANGED <<dbBooking, dbAccounts, attempts, authCtx, overrideUsed, lastTx>>

NewUserId == CHOOSE i \in IdentityIds \ AuthIds : \A j \in IdentityIds \ AuthIds : i <= j

\* the addresses the auth service may store for the address it is sent
MayStore(sent) == {sent, trim(sent)}

\* mutant: the auth service registers an address twice
EmailTaken_Never(U, stored) == FALSE

\* the auth service refuses an address that an identity holds
EmailTaken(U, stored) == \E u \in U : u.email = stored

\* mutant: authError is not thrown and the handler goes on to its inserts
CreateUser_NoThrow(r, serviceOk, stored) ==
  /\ reqs[r].pc = "createUser"
  /\ stored \in MayStore(toLowerCase(reqs[r].email))
  /\ IF serviceOk /\ ~EmailTaken(auth_users, stored)
     THEN /\ IdentityIds \ AuthIds # {}
          /\ auth_users' = auth_users \cup {[id |-> NewUserId, email |-> stored]}
          /\ reqs' = [reqs EXCEPT ![r] = [@ EXCEPT !.pc = "insertAllowed", !.authUser = NewUserId,
                                             !.wrote = @ \cup {"auth_users"}]]
     ELSE /\ reqs' = [reqs EXCEPT ![r] = [@ EXCEPT !.pc = "insertAllowed"]]
          /\ UNCHANGED auth_users
  /\ UNCHANGED <<dbBooking, user_roles, allowed_users, attempts, authCtx, overrideUsed, lastTx>>

\* adminClient.auth.admin.createUser({email: email.toLowerCase(), ...});
\* if (authError) throw authError -> catch, 500.  The auth service is not
\* part of the repository: it refuses an email that an identity already
\* holds, it may refuse for reasons of its own (serviceOk), and it stores the
\* address it was sent or that address without the surrounding blanks.
CreateUser(r, serviceOk, stored) ==
  /\ reqs[r].pc = "createUser"
  /\ stored \in MayStore(toLowerCase(reqs[r].email))
  /\ IF serviceOk /\ ~EmailTaken(auth_users, stored)
     THEN /\ IdentityIds \ AuthIds # {}
          /\ auth_users' = auth_users \cup {[id |-> NewUserId, email |-> stored]}
          /\ reqs' = [reqs EXCEPT ![r] = [@ EXCEPT !.pc = "insertAllowed", !.authUser = NewUserId,
                                             !.wrote = @ \cup {"auth_users"}]]
     ELSE /\ reqs' = [reqs EXCEPT ![r] = Respond(@, 500)]
          /\ UNCHANGED auth_users
  /\ UNCHANGED <<dbBooking, user_roles, allowed_users, attempts, authCtx, overrideUsed, lastTx>>

\* allowed_users: email TEXT NOT NULL UNIQUE, uti TEXT NOT NULL UNIQUE
AllowedInsertFails(A, row) ==
  \/ \E x \in A : x.email = row.email
  \/ \E x \in A : x.uti = row.uti

\* await adminClient.from("allowed_users").insert({email: email.toLowerCase(), uti});
\* the result is not looked at
InsertAllowedUser(r) ==
  /\ reqs[r].pc = "insertAllowed"
  /\ LET row == [email |-> toLowerCase(reqs[r].email), uti |-> reqs[r].uti]
     IN IF AllowedInsertFails(allowed_users, row)
        THEN /\ reqs' = [reqs EXCEPT ![r] = [@ EXCEPT !.pc = "insertRole"]]
             /\ UNCHANGED allowed_users
        ELSE /\ allowed_users' = allowed_users \cup {row}
             /\ reqs' = [reqs EXCEPT ![r] = [@ EXCEPT !.pc = "insertRole",
                                                !.wrote = @ \cup {"allowed_users"}]]
  /\ UNCHANGED <<dbBooking, auth_users, user_roles, attempts, authCtx, overrideUsed, lastTx>>

\* role || "user"
RoleOrDefault(role) == IF role = "none" THEN "user" ELSE role

\* user_roles: role app_role, user_id REFERENCES auth.users, UNIQUE(user_id, role)
RoleInsertFails(R, row) ==
  \/ row.role \notin app_role
  \/ row.user_id \notin AuthIds
  \/ row \in R

\* await adminClient.from("user_roles").insert({user_id: authUser.user.id,
\* role: role || "user"}); the result is not looked at; then 200
InsertUserRole(r) ==
  /\ reqs[r].pc = "insertRole"
  /\ LET row == [user_id |-> reqs[r].authUser, role |-> RoleOrDefault(reqs[r].role)]
     IN IF RoleInsertFails(user_roles, row)
        THEN /\ reqs' = [reqs EXCEPT ![r] = Respond(@, 200)]
             /\ UNCHANGED user_roles
        ELSE /\ user_roles' = user_roles \cup {row}
             /\ reqs' = [reqs EXCEPT ![r] = Respond([@ EXCEPT !.wrote = @ \cup {"user_roles"}], 200)]
  /\ UNCHANGED <<dbBooking, auth_users, allowed_users, attempts, authCtx, overrideUsed, lastTx>>

\* the response has been delivered
FinishRequest(r) ==
  /\ reqs[r].pc = "done"
  /\ reqs' = [reqs EXCEPT ![r] = IdleReq]
  /\ UNCHANGED <<dbBooking, dbAccounts, attempts, authCtx, overrideUsed, lastTx>>

\* ------------------------------------------------------------- AuthProvider
\* The AuthProvider of one browser.  checkAdminRole is called without await:
\* its answer arrives in a later step.
\* loadSession: getSession(), setUser, checkAdminRole if a user; on an error
\* nothing is set; finally setLoading(false)
LoadSession(u, ok) ==
  /\ authCtx.sessionLoad = "pending"
  /\ authCtx' = IF ok
       THEN [authCtx EXCEPT !.sessionLoad = "done", !.user = u, !.loading = FALSE,
                            !.lookups = IF u = None THEN @ ELSE @ \cup {u}]
       ELSE [authCtx EXCEPT !.sessionLoad = "done", !.loading = FALSE]
  /\ UNCHANGED <<dbBooking, dbAccounts, attempts, reqs, overrideUsed, lastTx>>

\* the onAuthStateChange callback: setUser; checkAdminRole if a user, else
\* setIsAdmin(false); finally setLoading(false)
AuthStateChange(u) ==
  /\ authCtx' = [authCtx EXCEPT !.user = u, !.loading = FALSE,
                                 !.isAdmin = IF u = None THEN FALSE ELSE @,
                                 !.lookups = IF u = None THEN @ ELSE @ \cup {u}]
  /\ UNCHANGED <<dbBooking, dbAccounts, attempts, reqs, overrideUsed, lastTx>>

\* checkAdminRole(u) is answered: if (error) throw -> catch, setIsAdmin(false);
\* else setIsAdmin(!!data)
CheckAdminRoleDone(u, queryOk) ==
  /\ u \in authCtx.lookups
  /\ authCtx' = [authCtx EXCEPT !.lookups = @ \ {u}, !.isAdmin = RoleData(queryOk, u)]
  /\ UNCHANGED <<dbBooking, dbAccounts, attempts, reqs, overrideUsed, lastTx>>

\* logout: signOut, setUser(null), setIsAdmin(false), then
\* window.location.href = "/": the page and its provider start anew
Logout ==
  /\ authCtx.user # None
  /\ authCtx' = InitAuthCtx
  /\ UNCHANGED <<dbBooking, dbAccounts, attempts, reqs, overrideUsed, lastTx>>

\* Login page, the redirect effect: it runs after a render in which user is
\* set and loading is false, and navigates by the isAdmin of that render.
LoginRedirect ==
  /\ authCtx.path = "/"
  /\ authCtx.user # None /\ ~authCtx.loading
  /\ authCtx' = [authCtx EXCEPT !.path = IF authCtx.isAdmin THEN "/admin" ELSE "/dashboard"]
  /\ UNCHANGED <<dbBooking, dbAccounts, attempts, reqs, overrideUsed, lastTx>>

\* ------------------------------------------------------------- specifications
\* Spec: every transaction of the booking schema, with MaxAttempts booking
\* inserts in flight between their WITH CHECK and their commit.
Next ==
  \/ \E a \in 1..MaxAttempts, caller \in AuthIds, uid \in AuthIds, sid \in NameableSeatIds :
       BeginInsert(a, caller, uid, sid, FALSE)
  \/ \E a \in 1..MaxAttempts : CommitInsert(a, FALSE)
  \/ \E caller \in AuthIds, sid \in ExistingSeatIds, v \in BOOLEAN : ToggleFreeze(caller, sid, v)
  \/ \E caller \in AuthIds, b \in bookings : DeleteBooking(caller, b)
  \/ \E caller \in AuthIds, b \in bookings, sid \in NameableSeatIds : UpdateBooking(caller, b, sid)
  \/ \E caller \in AuthIds, sid \in ExistingSeatIds : DeleteSeat(caller, sid)
  \/ \E caller \in AuthIds, rows \in 0..MaxRows, cols \in 1..MaxCols : UpdateLayout(caller, rows, cols)
  \/ \E caller \in AuthIds : GenerateSeats(caller)
  \/ \E uid \in AuthIds : DeleteUser(uid)

Spec == Init /\ [][Next]_vars

\* SpecConc: MaxRacers booking inserts in flight together, by users and by
\* admins, beside the admin's booking writes and the freeze override.
NextConc ==
  \/ \E a \in Attempts, caller \in AuthIds, uid \in AuthIds, sid \in NameableSeatIds :
       BeginInsert(a, caller, uid, sid, FALSE)
  \/ \E a \in Attempts : CommitInsert(a, FALSE)
  \/ \E caller \in AuthIds, sid \in ExistingSeatIds, v \in BOOLEAN : ToggleFreeze(caller, sid, v)
  \/ \E caller \in AuthIds, b \in bookings : DeleteBooking(caller, b)
  \/ \E caller \in AuthIds, b \in bookings, sid \in NameableSeatIds : UpdateBooking(caller, b, sid)

SpecConc == Init /\ [][NextConc]_vars

\* SpecRace: the booking page alone.  Each handleConfirmBooking sends the
\* caller's own row once and keeps the answer; no other transaction runs.
NextRace ==
  \/ \E a \in Attempts, caller \in AuthIds, sid \in ExistingSeatIds :
       BeginInsert(a, caller, caller, sid, TRUE)
  \/ \E a \in Attempts : CommitInsert(a, TRUE)

SpecRace == Init /\ [][NextRace]_vars

\* SpecConfirm: the booking page's handleConfirmBooking from confirmation to
\* return.  The database answers every statement it was sent and the
\* handler's continuation runs once its await has resolved.
NextConfirm ==
  \/ \E a \in Attempts, caller \in AuthIds, sid \in ExistingSeatIds :
       BeginInsert(a, caller, caller, sid, TRUE)
  \/ \E a \in Attempts : CommitInsert(a, TRUE)
  \/ \E a \in Attempts : FinishInsert(a)

SpecConfirm ==
  /\ Init /\ [][NextConfirm]_vars
  /\ \A a \in Attempts : WF_vars(CommitInsert(a, TRUE)) /\ WF_vars(FinishInsert(a))

\* SpecFreeze: the booking page beside the admin's freeze override.  The
\* page may send the id of a seat that exists or one that names no row.
NextFreeze ==
  \/ \E a \in Attempts, caller \in AuthIds, sid \in NameableSeatIds :
       BeginInsert(a, caller, caller, sid, TRUE)
  \/ \E a \in Attempts : CommitInsert(a, TRUE)
  \/ \E a \in Attempts : FinishInsert(a)
  \/ \E caller \in AuthIds, sid \in ExistingSeatIds, v \in BOOLEAN : ToggleFreeze(caller, sid, v)

SpecFreeze == Init /\ [][NextFreeze]_vars

\* SpecPage: booking inserts alone, sent by the booking page or straight to
\* the API with any row, each client keeping its answer until its handler
\* returns.
NextPage ==
  \/ \E a \in Attempts, caller \in AuthIds, uid \in AuthIds, sid \in ExistingSeatIds :
       BeginInsert(a, caller, uid, sid, TRUE)
  \/ \E a \in Attempts : CommitInsert(a, TRUE)
  \/ \E a \in Attempts : FinishInsert(a)

SpecPage == Init /\ [][NextPage]_vars

\* SpecProv: the provisioning handler alone, MaxReqs requests in flight.
\* At start an admin (1) and ordinary users exist, each with its
\* allowed_users row, and two identity ids are unused.
ProvUsers == 1..(MaxUsers - 1)

InitProv ==
  /\ auth_users = {[id |-> u, email |-> [name |-> u, upper |-> FALSE, pad |-> FALSE]] : u \in ProvUsers}
  /\ user_roles = {[user_id |-> u, role |-> IF u = 1 THEN "admin" ELSE "user"] : u \in ProvUsers}
  /\ allowed_users = {[email |-> [name |-> u, upper |-> FALSE, pad |-> FALSE], uti |-> u] : u \in ProvUsers}
  /\ seat_layout = InitLayout
  /\ seats = generate_seats_for_layout({}, {}, InitLayout, SeatIds).seats
  /\ bookings = {}
  /\ attempts = [a \in Attempts |-> IdleAttempt]
  /\ reqs = [r \in Reqs |-> IdleReq]
  /\ authCtx = InitAuthCtx
  /\ overrideUsed = FALSE
  /\ lastTx = "none"

NextProv ==
  \/ \E r \in Reqs, caller \in IdentityIds \cup {None} : Receive(r, caller)
  \/ \E r \in Reqs : GetUser(r)
  \/ \E r \in Reqs, queryOk \in BOOLEAN, body \in {"json", "malformed"},
        email \in BodyEmails, uti \in BodySecrets, role \in BodyRoles :
       RoleLookup(r, queryOk, body, email, uti, role)
  \/ \E r \in Reqs, serviceOk \in BOOLEAN, stored \in Emails : CreateUser(r, serviceOk, stored)
  \/ \E r \in Reqs : InsertAllowedUser(r)
  \/ \E r \in Reqs : InsertUserRole(r)
  \/ \E r \in Reqs : FinishRequest(r)

SpecProv == InitProv /\ [][NextProv]_vars

\* SpecAuth: the two admin role lookups beside each other: the browser's
\* AuthProvider and the provisioning handler, whose requests carry one new
\* email here.
NewEmail == [name |-> MaxUsers, upper |-> FALSE, pad |-> FALSE]

NextAuth ==
  \/ \E u \in AuthIds \cup {None}, ok \in BOOLEAN : LoadSession(u, ok)
  \/ \E u \in AuthIds \cup {None} : AuthStateChange(u)
  \/ \E u \in AuthIds, queryOk \in BOOLEAN : CheckAdminRoleDone(u, queryOk)
  \/ Logout
  \/ LoginRedirect
  \/ \E r \in Reqs, caller \in IdentityIds \cup {None} : Receive(r, caller)
  \/ \E r \in Reqs : GetUser(r)
  \/ \E r \in Reqs, queryOk \in BOOLEAN, uti \in {None, MaxSecrets}, role \in {"admin", "none"} :
       RoleLookup(r, queryOk, "json", NewEmail, uti, role)
  \/ \E r \in Reqs, serviceOk \in BOOLEAN, stored \in Emails : CreateUser(r, serviceOk, stored)
  \/ \E r \in Reqs : InsertAllowedUser(r)
  \/ \E r \in Reqs : InsertUserRole(r)
  \/ \E r \in Reqs : FinishRequest(r)

SpecAuth == InitProv /\ [][NextAuth]_vars

\* ------------------------------------------------------------- properties
HasBooking(B, sid) == \E b \in B : b.seat_id = sid

BookingsOfUser(u) == {b \in bookings : b.user_id = u}

BookingsOfSeat(sid) == {b \in bookings : b.seat_id = sid}

\* the is_booked values of the rows with this id: one value, or none
FlagOf(S, sid) == {s.is_booked : s \in {x \in S : x.id = sid}}

InitialSeatIds == {s.id : s \in generate_seats_for_layout({}, {}, InitLayout, SeatIds).seats}

SeatFlagSync == \A s \in seats : s.is_booked <=> HasBooking(bookings, s.id)

\* C1 as stated: in every reachable state, admin seat writes included, a
\* seat is is_booked exactly when a booking row references it.
C1_SyncAlways == SeatFlagSync

\* C1 as amended: as long as no admin has written seats.is_booked directly
\* (the freeze/unfreeze override), a seat is is_booked exactly when a
\* booking row references it.
C1_SyncWithoutOverride == ~overrideUsed => SeatFlagSync

\* C1 witness: no override so far, seats were regenerated, a booking exists
\* beside a free seat.
C1_Witness ==
  /\ ~overrideUsed
  /\ bookings # {}
  /\ \E s \in seats : s.id \notin InitialSeatIds
  /\ \E s \in seats : ~s.is_booked

\* C2: no user ever has more than one booking row, whatever booking inserts
\* (by users or admins) and admin booking updates interleave.
C2_AtMostOneBookingPerUser == \A u \in UserIds : Cardinality(BookingsOfUser(u)) <= 1

\* C2 witness: a user holds a booking while an insert of another row for the
\* same user has passed its WITH CHECK and is about to reach the index.
C2_Witness ==
  \E a \in Attempts, b \in bookings :
    /\ attempts[a].pc = "checked"
    /\ attempts[a].user_id = b.user_id
    /\ attempts[a].seat_id # b.seat_id
    /\ SeatExists(attempts[a].seat_id)
    /\ ~HasBooking(bookings, attempts[a].seat_id)

\* C3: no seat ever has more than one booking row, whatever booking inserts
\* and admin reassignments interleave, the freeze override included.
C3_AtMostOneBookingPerSeat == \A sid \in SeatIds : Cardinality(BookingsOfSeat(sid)) <= 1

\* C3 witness: a booked seat that the override shows as free, with another
\* user's insert for it past its WITH CHECK.
C3_Witness ==
  \E a \in Attempts, b \in bookings :
    /\ attempts[a].pc = "checked"
    /\ attempts[a].seat_id = b.seat_id
    /\ attempts[a].user_id # b.user_id
    /\ FlagOf(seats, b.seat_id) = {FALSE}
    /\ overrideUsed

\* An attempt other than a and b that names one of these users or seats.
Interferes(x, users, sids) ==
  /\ attempts[x].pc # "idle"
  /\ attempts[x].user_id \in users \/ attempts[x].seat_id \in sids

Done(a) == attempts[a].pc = "done"

\* C4: two users without a booking insert for the same unbooked seat, no
\* other insert touching them: exactly one commits, the other is answered a
\* conflict (the policy's or the unique index's), the seat is is_booked
\* with one booking and the loser holds none.
C4_RaceResolution ==
  \A a, b \in Attempts :
    (/\ a # b /\ Done(a) /\ Done(b)
     /\ attempts[a].user_id # attempts[b].user_id
     /\ attempts[a].seat_id = attempts[b].seat_id
     /\ \A x \in Attempts \ {a, b} :
          ~Interferes(x, {attempts[a].user_id, attempts[b].user_id}, {attempts[a].seat_id}))
    => \E w, l \in {a, b} :
         /\ w # l
         /\ attempts[w].result = "committed"
         /\ attempts[l].result \in {"rls", "unique_seat_id"}
         /\ FlagOf(seats, attempts[w].seat_id) = {TRUE}
         /\ BookingsOfSeat(attempts[w].seat_id) =
              {[user_id |-> attempts[w].user_id, seat_id |-> attempts[w].seat_id]}
         /\ BookingsOfUser(attempts[l].user_id) = {}

\* C4 witness: both inserts passed their WITH CHECK before either committed;
\* the second to reach the index was answered the seat_id violation.
C4_Witness ==
  \E a, b \in Attempts :
    /\ Done(a) /\ Done(b)
    /\ attempts[a].user_id # attempts[b].user_id
    /\ attempts[a].seat_id = attempts[b].seat_id
    /\ attempts[a].result = "committed"
    /\ attempts[b].result = "unique_seat_id"

\* C5: one user without a booking sends two inserts for two unbooked seats
\* and both pass their WITH CHECK (neither had committed), no other insert
\* touching them: exactly one commits, the other is answered the user_id
\* uniqueness violation; the committed seat is is_booked, the other is not.
C5_DoubleInsert ==
  \A a, b \in Attempts :
    (/\ a # b /\ Done(a) /\ Done(b)
     /\ attempts[a].user_id = attempts[b].user_id
     /\ attempts[a].seat_id # attempts[b].seat_id
     /\ attempts[a].result # "rls" /\ attempts[b].result # "rls"
     /\ \A x \in Attempts \ {a, b} :
          ~Interferes(x, {attempts[a].user_id}, {attempts[a].seat_id, attempts[b].seat_id}))
    => \E w, l \in {a, b} :
         /\ w # l
         /\ attempts[w].result = "committed"
         /\ attempts[l].result = "unique_user_id"
         /\ FlagOf(seats, attempts[w].seat_id) = {TRUE}
         /\ FlagOf(seats, attempts[l].seat_id) = {FALSE}

\* C5 witness: the two inserts of one user have both answered, one committed
\* and one with the user_id violation.
C5_Witness ==
  \E a, b \in Attempts :
    /\ Done(a) /\ Done(b)
    /\ attempts[a].user_id = attempts[b].user_id
    /\ attempts[a].seat_id # attempts[b].seat_id
    /\ attempts[a].result = "committed"
    /\ attempts[b].result = "unique_user_id"

\* C6: the transaction that changes a booking's seat_id from A to B also
\* leaves A with is_booked = false and B with is_booked = true: no committed
\* state shows the booking on B with A still booked, or with B not booked.
C6_ReassignTogether ==
  [][\A caller \in AuthIds, b \in bookings, sid \in NameableSeatIds :
       (/\ lastTx' = "reassign_booking" /\ bookings' # bookings /\ sid # b.seat_id
        /\ UpdateBooking(caller, b, sid))
       => /\ FlagOf(seats', b.seat_id) = {FALSE}
          /\ FlagOf(seats', sid) = {TRUE}]_vars

\* C6 witness: the last transaction moved a booking; its seat is booked and
\* a seat without a booking is free.
C6_Witness ==
  /\ lastTx = "reassign_booking"
  /\ \E b \in bookings : FlagOf(seats, b.seat_id) = {TRUE}
  /\ \E s \in seats : ~s.is_booked /\ ~HasBooking(bookings, s.id)

\* C7 as stated: generate_seats_for_layout deletes no booking and leaves
\* every seat row that a booking references as it was, in every reachable
\* state, those after the freeze override included.
C7_GenerateKeepsBookedSeats ==
  [][\A caller \in AuthIds :
       (lastTx' \in GenerateKinds /\ GenerateSeats(caller))
       => /\ bookings' = bookings
          /\ \A s \in seats : HasBooking(bookings, s.id) => s \in seats']_vars

InGrid(s, layout) ==
  s.row_num \in 1..layout.total_rows /\ s.col_num \in 1..layout.total_columns

OneSeatPerCell(S, layout) ==
  \A r \in 1..layout.total_rows, c \in 1..layout.total_columns :
    Cardinality(SeatAt(S, r, c)) = 1

\* C8 as stated: after generate_seats_for_layout the layout has exactly
\* R x C seats, one per cell of the grid, whatever existed before.
C8_ExactlyTheGrid ==
  [][\A caller \in AuthIds :
       (lastTx' \in GenerateKinds /\ GenerateSeats(caller))
       => /\ OneSeatPerCell(seats', seat_layout)
          /\ Cardinality(seats') = seat_layout.total_rows * seat_layout.total_columns]_vars

\* C8 as amended: after generate_seats_for_layout the layout has exactly one
\* seat per cell of the grid; the only seats outside the grid are those that
\* were is_booked before the call, kept as they were.  The count is R x C
\* plus the number of is_booked seats outside the grid.
C8_GridAndBookedOutside ==
  [][\A caller \in AuthIds :
       (lastTx' \in GenerateKinds /\ GenerateSeats(caller))
       => /\ OneSeatPerCell(seats', seat_layout)
          /\ \A s \in seats' : ~InGrid(s, seat_layout) => (s \in seats /\ s.is_booked)
          /\ Cardinality(seats') =
               seat_layout.total_rows * seat_layout.total_columns
               + Cardinality({s \in seats : s.is_booked /\ ~InGrid(s, seat_layout)})]_vars

\* C8 witness: the grid was shrunk and regenerated while a seat outside the
\* new grid was booked: every cell has its seat and the booked one remains.
C8_Witness ==
  /\ lastTx = "generate"
  /\ seat_layout.total_rows >= 1
  /\ OneSeatPerCell(seats, seat_layout)
  /\ \E s \in seats : ~InGrid(s, seat_layout) /\ s.is_booked /\ HasBooking(bookings, s.id)

\* The request in slot r is answered with this code and has written nothing.
Rejected(r, code) ==
  /\ reqs'[r].pc = "done"
  /\ reqs'[r].status = code
  /\ reqs'[r].wrote = {}
  /\ dbAccounts' = dbAccounts

\* C9: a provisioning request is answered 401 when its caller is no
\* identity, 403 when its caller holds no admin role, 400 when an admin
\* whose role lookup succeeded sent a JSON body without email or without
\* the secret; in each case the request has written no identity, no
\* allowed_users row and no user_roles row.
C9_RejectedRequests ==
  [][\A r \in Reqs :
       /\ (reqs[r].pc = "getUser" /\ GetUser(r) /\ reqs[r].caller \notin AuthIds)
          => Rejected(r, 401)
       /\ (reqs[r].pc = "roleLookup" /\ reqs'[r].pc # "roleLookup")
          => /\ ~has_role(reqs[r].caller, "admin") => Rejected(r, 403)
             /\ (/\ has_role(reqs[r].caller, "admin")
                 /\ reqs'[r].status # 403
                 /\ reqs'[r].body = "json"
                 /\ reqs'[r].email = NoEmail \/ reqs'[r].uti = None)
                => Rejected(r, 400)]_vars

\* C9 witness: an admin's request that carried an email and no secret has
\* been answered 400 without a write.
C9_Witness ==
  \E r \in Reqs :
    /\ reqs[r].pc = "done" /\ reqs[r].status = 400
    /\ has_role(reqs[r].caller, "admin")
    /\ reqs[r].email # NoEmail /\ reqs[r].uti = None
    /\ reqs[r].wrote = {}
    /\ dbAccounts = <<{[id |-> u, email |-> [name |-> u, upper |-> FALSE, pad |-> FALSE]] : u \in ProvUsers},
                      {[user_id |-> u, role |-> IF u = 1 THEN "admin" ELSE "user"] : u \in ProvUsers},
                      {[email |-> [name |-> u, upper |-> FALSE, pad |-> FALSE], uti |-> u] : u \in ProvUsers}>>

\* C10 as stated: a request answered 200 (an admin's, both fields present,
\* the email held by no identity; here with no surrounding blanks and a
\* role of the enum or none) has created one identity, one allowed_users row
\* and one user_roles row: after it exactly one identity and exactly one
\* allowed_users row carry the normalized email and the identity's only
\* role row carries the requested role, or user.
C10_ProvisionedTriple ==
  [][\A r \in Reqs :
       (/\ InsertUserRole(r)
        /\ reqs'[r].status = 200
        /\ ~reqs[r].email.pad
        /\ reqs[r].role \in app_role \cup {"none"})
       => LET req == reqs'[r]
              e == Normalized(req.email)
          IN /\ req.wrote = {"auth_users", "allowed_users", "user_roles"}
             /\ {u.id : u \in {x \in auth_users' : x.email = e}} = {req.authUser}
             /\ Cardinality({a \in allowed_users' : a.email = e}) = 1
             /\ {x \in user_roles' : x.user_id = req.authUser}
                  = {[user_id |-> req.authUser, role |-> RoleOrDefault(req.role)]}]_vars

\* C11: when identity creation fails (the createUser step creates no
\* identity), the request is answered 500 at once and has inserted no
\* allowed_users row and no user_roles row.
C11_CreateFailureAborts ==
  [][\A r \in Reqs :
       (/\ reqs[r].pc = "createUser" /\ reqs'[r] # reqs[r]
        /\ auth_users' = auth_users)
       => Rejected(r, 500)]_vars

\* C11 witness: a request that passed the three checks was answered 500 and
\* wrote nothing.
C11_Witness ==
  \E r \in Reqs :
    /\ reqs[r].pc = "done" /\ reqs[r].status = 500
    /\ reqs[r].body = "json" /\ ~MissingFields(reqs[r])
    /\ reqs[r].wrote = {}

\* C12 as stated: a failed allowed_users insert or a failed user_roles
\* insert is answered 500, and an answer of 200 means that the request wrote
\* the identity, the allowed_users row and the user_roles row.
C12_InsertFailuresReported ==
  [][\A r \in Reqs :
       /\ (reqs[r].pc = "insertAllowed" /\ reqs'[r] # reqs[r] /\ allowed_users' = allowed_users)
          => (reqs'[r].pc = "done" /\ reqs'[r].status = 500)
       /\ (reqs[r].pc = "insertRole" /\ reqs'[r] # reqs[r] /\ user_roles' = user_roles)
          => (reqs'[r].pc = "done" /\ reqs'[r].status = 500)
       /\ (reqs[r].status # 200 /\ reqs'[r].status = 200)
          => reqs'[r].wrote = {"auth_users", "allowed_users", "user_roles"}]_vars

\* identities, allowed_users rows and user_roles rows that belong to an email
CountsFor(e) ==
  LET ids == {u.id : u \in {x \in auth_users : Normalized(x.email) = Normalized(e)}}
  IN <<Cardinality(ids),
       Cardinality({a \in allowed_users : Normalized(a.email) = Normalized(e)}),
       Cardinality({x \in user_roles : x.user_id \in ids})>>

\* C13: a provisioning request whose email already has its identity
\* (whichever address the auth service stores for it is held) is answered
\* with an error and leaves the numbers of identities, allowed_users rows
\* and user_roles rows of that email as they were.
C13_SecondProvisioningFails ==
  [][\A r \in Reqs :
       (/\ reqs[r].pc = "createUser" /\ reqs'[r] # reqs[r]
        /\ \A s \in MayStore(toLowerCase(reqs[r].email)) : \E u \in auth_users : u.email = s)
       => /\ Rejected(r, 500)
          /\ CountsFor(reqs[r].email)' = CountsFor(reqs[r].email)]_vars

\* C13 witness: an identity created by an earlier request holds the email of
\* a request, sent in upper case this time, that was answered 500.
C13_Witness ==
  \E r \in Reqs, u \in auth_users :
    /\ reqs[r].pc = "done" /\ reqs[r].status = 500
    /\ u.id \notin ProvUsers
    /\ reqs[r].email.upper /\ ~reqs[r].email.pad
    /\ u.email = toLowerCase(reqs[r].email)
    /\ reqs[r].wrote = {}

\* C20 as stated: the allowed_users row a request inserts carries the
\* lower-cased, trimmed input email, and the identity the request created
\* carries that same value.
C20_StoredNormalized ==
  [][\A r \in Reqs :
       (reqs[r].pc = "insertAllowed" /\ allowed_users' # allowed_users)
       => /\ \A a \in allowed_users' \ allowed_users : a.email = Normalized(reqs[r].email)
          /\ \A u \in auth_users : u.id = reqs[r].authUser => u.email = Normalized(reqs[r].email)]_vars

\* C18: an admin role lookup that errors or finds no row grants nothing.
\* In the browser the answer of checkAdminRole sets isAdmin to false when the
\* query errored, and to true only when it succeeded and found the admin
\* row; in the provisioning handler a lookup that errored or found no row
\* ends the request with 403 and without a write.
C18_FailedLookupGrantsNothing ==
  [][/\ authCtx'.lookups # authCtx.lookups
        => \A u \in authCtx.lookups, queryOk \in BOOLEAN :
             CheckAdminRoleDone(u, queryOk)
             => /\ ~queryOk => ~authCtx'.isAdmin
                /\ authCtx'.isAdmin => (queryOk /\ has_role(u, "admin"))
     /\ \A r \in Reqs :
          (reqs[r].pc = "roleLookup" /\ reqs'[r].pc # "roleLookup")
          => \A queryOk \in BOOLEAN, body \in {"json", "malformed"}, email \in BodyEmails,
                uti \in BodySecrets, role \in BodyRoles :
               (RoleLookup(r, queryOk, body, email, uti, role)
                /\ (~queryOk \/ ~has_role(reqs[r].caller, "admin")))
               => Rejected(r, 403)]_vars

\* C18 witness: the browser shows an admin as no admin after a lookup (the
\* query errored), and an admin's provisioning request was answered 403.
C18_Witness ==
  /\ authCtx.user # None /\ has_role(authCtx.user, "admin")
  /\ authCtx.lookups = {} /\ ~authCtx.isAdmin /\ authCtx.sessionLoad = "done"
  /\ \E r \in Reqs :
       /\ reqs[r].pc = "done" /\ reqs[r].status = 403
       /\ has_role(reqs[r].caller, "admin")
       /\ reqs[r].wrote = {}

\* C15: an UPDATE or a DELETE of a booking sent by a caller without the admin
\* role, the caller's own booking included, leaves every booking row and
\* every seat row as it was.
C15_NonAdminBookingWritesVoid ==
  [][/\ lastTx' = "booking_write_no_row" \/ bookings' # bookings
     /\ \E caller \in AuthIds, b \in bookings :
          /\ ~has_role(caller, "admin")
          /\ \/ DeleteBooking(caller, b)
             \/ \E sid \in NameableSeatIds : UpdateBooking(caller, b, sid)
     => dbBooking' = dbBooking]_vars

\* a user without the admin role holds a booking, and a write of bookings
\* that matched no row has run
C15_Witness ==
  /\ lastTx = "booking_write_no_row"
  /\ \E b \in bookings : ~has_role(b.user_id, "admin")
  /\ \A s \in seats : (\E b \in bookings : b.seat_id = s.id) <=> s.is_booked

\* The row an attempt sent.
RowOf(att) == [user_id |-> att.user_id, seat_id |-> att.seat_id]

\* For the inserts sent by the given callers: a row commits only if, at the
\* moment of the policy check, its user_id was the caller, the caller held
\* no booking and the seat's is_booked was false; a row of which the three
\* are true passes the check; an insert that does not pass, or that passes
\* and does not commit, is answered with an error and leaves bookings and
\* seats as they were.
InsertPreconditions(callers) ==
  \A a \in Attempts :
    LET old == attempts[a]
        new == attempts'[a]
        holds == /\ new.user_id = new.caller
                 /\ BookingsOfUser(new.caller) = {}
                 /\ FlagOf(seats, new.seat_id) = {FALSE}
    IN /\ (old.pc = "idle" /\ new.pc # "idle" /\ new.caller \in callers) =>
            /\ new.failed = {} <=> holds
            /\ holds => new.pc = "checked"
            /\ new.pc # "checked" => new.pc = "done" /\ new.result = "rls"
            /\ dbBooking' = dbBooking
       /\ (old.pc = "checked" /\ new.pc = "done" /\ old.caller \in callers) =>
            IF new.result = "committed"
              THEN /\ old.failed = {}
                   /\ bookings' = bookings \cup {RowOf(old)}
                   /\ seats' = SetBooked(seats, old.seat_id, TRUE)
              ELSE /\ new.result # "none"
                   /\ dbBooking' = dbBooking

\* C14 (as written): a booking insert by any caller commits only if the row's
\* user_id is the caller, the caller holds no booking at that moment and the
\* seat's is_booked is false; every other insert is rejected and leaves
\* bookings and seats unchanged.
C14_AnyCallerPreconditions == [][InsertPreconditions(AuthIds)]_vars

\* C14 (as settled): the same of every booking insert by a caller without
\* the admin role, whose row passes the policy check only with the three
\* true.
C14_UserInsertPreconditions ==
  [][/\ InsertPreconditions({u \in AuthIds : ~has_role(u, "admin")})
     /\ \A a \in Attempts :
          (/\ attempts[a].pc = "idle" /\ attempts'[a].pc = "checked"
           /\ ~has_role(attempts'[a].caller, "admin")) => attempts'[a].failed = {}]_vars

\* one user's insert has committed while another user's insert was rejected
\* by the policy check
C14_Witness ==
  \E a, b \in Attempts :
    /\ ~has_role(attempts[a].caller, "admin") /\ ~has_role(attempts[b].caller, "admin")
    /\ attempts[a].pc = "done" /\ attempts[a].result = "committed"
    /\ RowOf(attempts[a]) \in bookings
    /\ attempts[b].pc = "done" /\ attempts[b].result = "rls"
    /\ attempts[b].failed # {}
    /\ RowOf(attempts[b]) \notin bookings

\* The insert was rejected because its caller held a booking, and for nothing
\* else: by the policy check, or by the index on user_id.
RejectedForUser(att) ==
  /\ att.pc = "done"
  /\ \/ att.result = "rls" /\ att.failed = {"NOT user_has_booking"}
     \/ att.result = "unique_user_id"

\* The insert was rejected because its seat was booked, and for nothing else:
\* by the policy check, or by the index on seat_id.
RejectedForSeat(att) ==
  /\ att.pc = "done"
  /\ \/ att.result = "rls" /\ att.failed = {"seat_is_available"}
     \/ att.result = "unique_seat_id"

\* C17: a rejected booking insert tells its caller which precondition failed:
\* what is shown for an insert rejected because the caller holds a booking
\* differs from what is shown for one rejected because the seat is booked,
\* whether the policy check or a uniqueness constraint rejected them.
C17_RejectionsTellTheCause ==
  \A a, b \in Attempts :
    (RejectedForUser(attempts[a]) /\ RejectedForSeat(attempts[b]))
      => ToastDescription(attempts[a].result) # ToastDescription(attempts[b].result)

\* A write or a call the API lets this caller send, the booking insert aside.
CallerOperation(caller) ==
  \/ \E sid \in ExistingSeatIds, v \in BOOLEAN : ToggleFreeze(caller, sid, v)
  \/ \E sid \in ExistingSeatIds : DeleteSeat(caller, sid)
  \/ \E b \in bookings : DeleteBooking(caller, b)
  \/ \E b \in bookings, sid \in NameableSeatIds : UpdateBooking(caller, b, sid)
  \/ \E rows \in 0..MaxRows, cols \in 1..MaxCols : UpdateLayout(caller, rows, cols)
  \/ GenerateSeats(caller)

\* C16: no operation available to a caller without the admin role creates,
\* deletes or changes a seat row, the calls of generate_seats_for_layout
\* included; only the caller's committed booking insert sets the is_booked
\* of the seat it books.
C16_UsersNeverWriteSeats ==
  [][seats' # seats =>
       \/ \E a \in 1..MaxAttempts :
            /\ CommitInsert(a, FALSE)
            /\ seats' = SetBooked(seats, attempts[a].seat_id, TRUE)
       \/ ~\E caller \in AuthIds : ~has_role(caller, "admin") /\ CallerOperation(caller)]_vars

\* C19: every booking references a seat row and an identity that exist.  The
\* transaction that deletes an identity deletes the booking it held and
\* leaves that booking's seat with is_booked false; the transaction that
\* deletes a seat deletes the booking that referenced it.
C19_CascadeKeepsReferences ==
  [][/\ \A b \in bookings' :
          /\ \E u \in auth_users' : u.id = b.user_id
          /\ \E s \in seats' : s.id = b.seat_id
     /\ auth_users' # auth_users =>
          \A b \in bookings :
            (~\E u \in auth_users' : u.id = b.user_id) =>
              /\ b \notin bookings'
              /\ FlagOf(seats', b.seat_id) = {FALSE}
     /\ \A b \in bookings :
          (~\E s \in seats' : s.id = b.seat_id) => b \notin bookings']_vars

\* an identity that held a booking has been deleted; the other bookings and
\* their seats are as they were
C19_Witness ==
  /\ lastTx = "delete_user_and_booking"
  /\ bookings # {}
  /\ \E s \in seats : ~s.is_booked /\ BookingsOfSeat(s.id) = {}
  /\ \A b \in bookings : FlagOf(seats, b.seat_id) = {TRUE}

\* C21: every booking attempt completes with one outcome and is not retried.
\* A confirmation sends one insert: the handler goes from the statement to
\* its answer and from the answer to its return, never back; the answer,
\* committed or one error, is set once; and every handler that started
\* returns, with booking false and the confirm dialog closed.
C21_AttemptsComplete ==
  /\ [][\A a \in Attempts :
          LET old == attempts[a]
              new == attempts'[a]
          IN /\ old.pc = "checked" /\ new # old =>
                  new.pc = "done" /\ new.result # "none" /\ RowOf(new) = RowOf(old)
             /\ old.pc = "done" /\ new # old => new = IdleAttempt
             /\ old.pc = "idle" /\ new # old =>
                  /\ new.booking /\ new.showConfirm
                  /\ \/ new.pc = "checked" /\ new.result = "none"
                     \/ new.pc = "done" /\ new.result = "rls"]_vars
  /\ \A a \in Attempts :
       (attempts[a].pc # "idle") ~>
         (attempts[a].pc = "idle" /\ ~attempts[a].booking /\ ~attempts[a].showConfirm)

\* one handler holds the answer that its row was committed, the other the
\* answer that its insert was rejected
C21_Witness ==
  \E a, b \in Attempts :
    /\ attempts[a].pc = "done" /\ attempts[a].result = "committed"
    /\ attempts[b].pc = "done" /\ attempts[b].result \notin {"none", "committed"}
    /\ attempts[a].booking /\ attempts[b].booking

\* A committed write of one booking row: an insert, a delete, or an update
\* of seat_id.
BookingWrite ==
  \/ \E a \in Attempts : CommitInsert(a, FALSE)
  \/ \E caller \in AuthIds, b \in bookings : DeleteBooking(caller, b)
  \/ \E caller \in AuthIds, b \in bookings, sid \in NameableSeatIds :
       UpdateBooking(caller, b, sid)

\* C22: from a state where every seat's is_booked says whether a booking
\* references the seat, one committed booking insert, booking delete or
\* booking seat_id update leads to a state where that is so again: the
\* trigger's seat write commits with the booking write.
C22_BookingWritesKeepSync ==
  [][(SeatFlagSync /\ bookings' # bookings /\ BookingWrite) =>
       \A s \in seats' : s.is_booked <=> HasBooking(bookings', s.id)]_vars

\* a booking was moved to another seat from a state in which flags and
\* bookings agreed; the seat it left is free
C22_Witness ==
  /\ ~overrideUsed
  /\ lastTx = "reassign_booking"
  /\ bookings # {}
  /\ \E s \in seats : ~s.is_booked
  /\ SeatFlagSync

\* C23: an update of a booking that leaves seat_id as it was writes no seat
\* row: every seat's is_booked is as before, the booking's own seat
\* included, also when the admin override had set that flag to false.
C23_SameSeatUpdateWritesNoSeat ==
  [][(/\ lastTx' = "update_booking"
      /\ \E caller \in AuthIds, b \in bookings : UpdateBooking(caller, b, b.seat_id))
     => seats' = seats /\ bookings' = bookings]_vars

\* the last committed write is an update that kept seat_id, of a booking
\* whose seat the override had set to is_booked false
C23_Witness ==
  /\ lastTx = "update_booking"
  /\ overrideUsed
  /\ \E b \in bookings : FlagOf(seats, b.seat_id) = {FALSE}

\* The cells of a set of seat rows with their flags.
CellFlags(S) ==
  {[row_num |-> s.row_num, col_num |-> s.col_num, is_booked |-> s.is_booked] : s \in S}

\* C24: generate_seats_for_layout is idempotent on geometry.  Run again right
\* after a run, the layout unchanged, it leaves the same cells with the same
\* is_booked flags and as many seat rows; every seat that is is_booked keeps
\* its row, id included, and no cell has two seats; no booking is deleted.
C24_GenerateIdempotent ==
  [][\A caller \in AuthIds :
       (lastTx \in GenerateKinds /\ lastTx' = "generate_again" /\ GenerateSeats(caller))
       => /\ CellFlags(seats') = CellFlags(seats)
          /\ Cardinality(seats') = Cardinality(seats)
          /\ \A s \in seats : s.is_booked => s \in seats'
          /\ \A s1, s2 \in seats' :
               (s1.row_num = s2.row_num /\ s1.col_num = s2.col_num) => s1 = s2
          /\ bookings' = bookings]_vars

\* the function ran twice in succession over a booked seat, a seat frozen by
\* the override or booked outside the grid among them, beside a free seat
C24_Witness ==
  /\ lastTx = "generate_again"
  /\ \E s \in seats : s.is_booked /\ HasBooking(bookings, s.id)
  /\ \E s \in seats : ~s.is_booked

\* C25: after a login the Login page redirects by role, a user with the
\* admin role to /admin and a user without it to /dashboard, however the
\* setting of the session, loading becoming false and the answer of the
\* un-awaited role lookup are ordered.
C25_RedirectByRole ==
  [][(authCtx.path = "/" /\ authCtx'.path # "/") =>
       authCtx'.path = IF has_role(authCtx.user, "admin") THEN "/admin" ELSE "/dashboard"]_vars

\* C26: whenever isAdmin is true a user is signed in and that user holds the
\* admin role: a role lookup answered after the session went to another
\* user, or to none, does not make isAdmin true.
C26_IsAdminOnlyForAdminUser ==
  authCtx.isAdmin => (authCtx.user # None /\ has_role(authCtx.user, "admin"))

\* The seat is is_booked and no booking references it.
Frozen(sid) == FlagOf(seats, sid) = {TRUE} /\ BookingsOfSeat(sid) = {}

\* C27: a booking insert by a caller without the admin role is rejected, and
\* bookings and seats stay as they were, whenever its seat is is_booked
\* without a booking (frozen by the override) or its seat_id names no seat.
C27_FrozenOrMissingSeatRejected ==
  [][\A a \in Attempts :
       LET old == attempts[a]
           new == attempts'[a]
       IN (/\ old.pc = "idle" /\ new.pc # "idle"
           /\ ~has_role(new.caller, "admin")
           /\ Frozen(new.seat_id) \/ FlagOf(seats, new.seat_id) = {})
          => /\ new.pc = "done" /\ new.result = "rls"
             /\ dbBooking' = dbBooking]_vars

\* a user's insert into a frozen seat and a user's insert with the id of no
\* seat were both rejected; the frozen seat is still without a booking
C27_Witness ==
  \E a, b \in Attempts :
    /\ attempts[a].pc = "done" /\ attempts[a].result = "rls"
    /\ ~has_role(attempts[a].caller, "admin")
    /\ attempts[a].failed = {"seat_is_available"}
    /\ Frozen(attempts[a].seat_id)
    /\ attempts[b].pc = "done" /\ attempts[b].result = "rls"
    /\ ~has_role(attempts[b].caller, "admin")
    /\ attempts[b].failed = {"seat_is_available"}
    /\ FlagOf(seats, attempts[b].seat_id) = {}

\* C28: an admin's update that moves a booking to a seat another booking
\* references is rejected by the uniqueness of seat_id and changes nothing:
\* both bookings keep their seat_id and every seat keeps its is_booked.
C28_ReassignToTakenSeatRejected ==
  [][(/\ lastTx' = "reassign_rejected" \/ dbBooking' # dbBooking
      /\ \E caller \in AuthIds, b \in bookings, sid \in ExistingSeatIds :
           /\ has_role(caller, "admin")
           /\ sid # b.seat_id /\ BookingsOfSeat(sid) # {}
           /\ UpdateBooking(caller, b, sid))
     => /\ lastTx' = "reassign_rejected"
        /\ dbBooking' = dbBooking]_vars

\* the last statement was such a rejected update: two bookings on two seats,
\* both seats is_booked
C28_Witness ==
  /\ lastTx = "reassign_rejected"
  /\ Cardinality(bookings) = 2
  /\ \A b \in bookings : FlagOf(seats, b.seat_id) = {TRUE}
  /\ \A b1, b2 \in bookings : b1.seat_id = b2.seat_id => b1 = b2

====
